---- MODULE Spec2Model ----
(***************************************************************************)
(* Model of the SIMD nonce generator and deadline search of bencher        *)
(* (src/c/noncegen_512_avx512f.c and its 256-bit twin noncegen_256_avx2.c).*)
(* The two files are the same algorithm for vector widths 16 and 8; the    *)
(* model is written once, for a vector width VECTOR_SIZE.                  *)
(*                                                                         *)
(* Scaling.  The program's nonce has 8192 hashes of 32 bytes; the model    *)
(* keeps HASH_SIZE and SCOOP_SIZE and every literal of the code (64, >> 6, *)
(* 8 * 2 * HASH_CAP, ...) and scales HASH_CAP (and with it the number of   *)
(* scoops and NONCE_SIZE, which the code ties to HASH_CAP) down to         *)
(* CapBlocks 64-byte blocks.  A 32-bit word is modelled by its low         *)
(* WordBits bits wherever it is a hash output.                             *)
(*                                                                         *)
(* Memory.  A cache is a function from hash-slot index to a vector of      *)
(* VECTOR_SIZE lane values; slot k covers the bytes                        *)
(* [k*HASH_SIZE*VECTOR_SIZE, (k+1)*HASH_SIZE*VECTOR_SIZE) of the buffer,   *)
(* and a lane value packs the lane's 8 words of that slot (word w in bits  *)
(* [w*WordBits, (w+1)*WordBits)).  U marks a slot never written since the  *)
(* caller allocated the buffer.                                            *)
(***************************************************************************)
EXTENDS Integers, Sequences, FiniteSets, TLC

\* ---------------------------------------------------------------- bounds
VECTOR_SIZE == 2
CapBlocks == 2
WordBits == 2
MaxBatches == 2
MaxFbdCalls == 1

\* ------------------------------------------------------ program constants
HASH_SIZE == 32
SCOOP_SIZE == 64
HASH_CAP == 64 * CapBlocks
NUM_SCOOPS == HASH_CAP
NONCE_SIZE == NUM_SCOOPS * SCOOP_SIZE
WORDS_PER_HASH == HASH_SIZE \div 4
STATE_WORDS == 44 * VECTOR_SIZE

WordMod == 2 ^ WordBits
U == -1
Lanes == 0 .. (VECTOR_SIZE - 1)
Threads == {1, 2}

\* ------------------------------------------------------------ input sets
NumericIds == {0, 1}
StartNonces == {0, 1}
NonceCounts == {k * VECTOR_SIZE : k \in 0 .. MaxBatches}
Scoops == {0, 1, NUM_SCOOPS - 2, NUM_SCOOPS - 1}
Gensigs == { [w \in 0 .. 7 |-> 0], [w \in 0 .. 7 |-> (w * 3 + 1) % WordMod] }

\* --------------------------------------------------------------- helpers
RECURSIVE Byte(_, _)
\* byte k (little-endian) of the unsigned integer x
Byte(x, k) == IF k = 0 THEN x % 256 ELSE Byte(x \div 256, k - 1)

\* memory image (8 bytes) of bswap_64(x): byte j holds byte 7-j of x
bswap_64(x) == [j \in 0 .. 7 |-> Byte(x, 7 - j)]

\* *(mshabal_u32 *)(mem + o) on a little-endian host
U32At(mem, o) == mem[o] + 256 * mem[o + 1] + 65536 * mem[o + 2] + 16777216 * mem[o + 3]

RECURSIVE Xor(_, _)
\* bitwise exclusive or of two naturals
Xor(a, b) ==
    IF a = 0 THEN b
    ELSE IF b = 0 THEN a
    ELSE (((a % 2) + (b % 2)) % 2) + 2 * Xor(a \div 2, b \div 2)

\* word w of a packed lane value (an unwritten slot reads as 0)
HashWord(v, w) == IF v = U THEN 0 ELSE (v \div (WordMod ^ w)) % WordMod

RECURSIVE PackFrom(_, _)
PackFrom(ws, k) ==
    IF k = WORDS_PER_HASH THEN 0
    ELSE ws[k] + WordMod * PackFrom(ws, k + 1)

\* pack 8 words (a function on 0..7) into a lane value
Pack(ws) == PackFrom(ws, 0)

\* hash slot holding the byte at offset p of an interleaved buffer
SlotOf(p) == p \div (HASH_SIZE * VECTOR_SIZE)

\* slot s of a buffer; outside the buffer nothing is known
ReadSlot(buf, s) == IF s \in DOMAIN buf THEN buf[s] ELSE [b \in Lanes |-> U]

WriteSlot(buf, s, vec) == IF s \in DOMAIN buf THEN [buf EXCEPT ![s] = vec] ELSE buf

\* ------------------------------------------------ common.h (not in src/)
\* seed: big-endian numeric id, blank nonce, 0x80 terminator, zeros
write_seed(numeric_id) ==
    [w \in 0 .. 7 |->
        IF w = 0 THEN U32At(bswap_64(numeric_id), 0)
        ELSE IF w = 1 THEN U32At(bswap_64(numeric_id), 4)
        ELSE IF w = 4 THEN 128
        ELSE 0]

\* term: 0x80 followed by 31 zero bytes
write_term == [w \in 0 .. 7 |-> IF w = 0 THEN 128 ELSE 0]

\* ------------------------------------- the Shabal kernel (not in src/)
\* A lane's Shabal computation is modelled by a small hash: a chaining
\* value folded from the context, folded with the words of the message (the
\* blocks read from the buffer, then the one-block template), and an output
\* of 8 words.  Lanes never mix.  The folds are balanced, so that their
\* evaluation stays shallow.
ShabalP == 997

ZeroCtx == [out_size |-> 0, state |-> [i \in 0 .. (STATE_WORDS - 1) |-> 0],
            Whigh |-> 0, Wlow |-> 0]

NoCtx == [out_size |-> U, state |-> [i \in 0 .. (STATE_WORDS - 1) |-> U],
          Whigh |-> U, Wlow |-> U]

mshabal_init(out_size) ==
    [out_size |-> out_size,
     state |-> [i \in 0 .. (STATE_WORDS - 1) |->
                    ((i \div VECTOR_SIZE) * 3 + out_size + 1) % WordMod],
     Whigh |-> 0, Wlow |-> 1]

Combine(x, y) == (x * 31 + y * 17 + x * y + 5) % ShabalP

RECURSIVE TreeFold(_, _, _)
\* the fold of the words m[lo], ..., m[hi]
TreeFold(m, lo, hi) ==
    IF lo = hi THEN m[lo] % ShabalP
    ELSE LET mid == (lo + hi) \div 2
         IN  Combine(TreeFold(m, lo, mid), TreeFold(m, mid + 1, hi))

\* the words of lane b in a context: 44 state words, out_size, Whigh, Wlow
CtxWords(ctx, b) ==
    [k \in 1 .. 47 |->
        IF k <= 44 THEN ctx.state[(k - 1) * VECTOR_SIZE + b]
        ELSE IF k = 45 THEN ctx.out_size
        ELSE IF k = 46 THEN ctx.Whigh
        ELSE ctx.Wlow]

\* chaining value a lane starts from
Chain0(ctx, b) == TreeFold(CtxWords(ctx, b), 1, 47)

\* the words lane b absorbs: num 64-byte blocks read from slot s on, then
\* the 16 words of the template
Message(buf, s, b, tpl, num) ==
    [k \in 1 .. (16 * num + 16) |->
        IF k <= 16 * num
        THEN HashWord(ReadSlot(buf, s + ((k - 1) \div WORDS_PER_HASH))[b],
                      (k - 1) % WORDS_PER_HASH)
        ELSE tpl[(k - 16 * num - 1) * VECTOR_SIZE + b]]

OutWord(c, k) == (((c + 1) * (2 * k + 3)) \div (k + 1)) % WordMod

Digest(c) == Pack([k \in 0 .. 7 |-> OutWord(c, k)])

\* mshabal_hash_fast(ctx, message, termination, dst, num): the vector of
\* digests of num blocks read at byte offset msg followed by the template
mshabal_hash_fast(ctx, buf, msg, tpl, num) ==
    [b \in Lanes |->
        Digest(Combine(Chain0(ctx, b),
                       TreeFold(Message(buf, SlotOf(msg), b, tpl, num),
                                1, 16 * num + 16)))]

\* the words lane b absorbs for a deadline: gensig || u1 || u2 || term
DeadlineMessage(gensig_simd, buf, u1, u2, term_simd, b) ==
    [k \in 1 .. 32 |->
        IF k <= 8 THEN gensig_simd[(k - 1) * VECTOR_SIZE + b]
        ELSE IF k <= 16 THEN HashWord(ReadSlot(buf, SlotOf(u1))[b], k - 9)
        ELSE IF k <= 24 THEN HashWord(ReadSlot(buf, SlotOf(u2))[b], k - 17)
        ELSE term_simd[(k - 25) * VECTOR_SIZE + b]]

\* mshabal_deadline_fast: one Shabal per lane, the first 8 bytes of the
\* output read as a native 64-bit integer
mshabal_deadline_fast(ctx, gensig_simd, buf, u1, u2, term_simd) ==
    [b \in Lanes |->
        LET c == Combine(Chain0(ctx, b),
                         TreeFold(DeadlineMessage(gensig_simd, buf, u1, u2,
                                                  term_simd, b), 1, 32))
        IN  OutWord(c, 0) + WordMod * OutWord(c, 1)]

\* ------------------------------------------------------------- variables
VARIABLES
    global_512,       \* the full context mshabal_init fills
    global_512_fast,  \* the process-wide fast context
    pc_init,          \* position of init_shabal
    inited,           \* init_shabal has returned at least once
    pc,               \* per thread: position in noncegen / find_best_deadline
    cache,            \* per thread: the caller's buffer
    ng,               \* per thread: locals of noncegen
    final,            \* per thread: the malloc'ed scratch buffer of noncegen
    fbd,              \* per thread: locals of find_best_deadline
    best_deadline,    \* per thread: the caller's *best_deadline
    best_offset,      \* per thread: the caller's *best_offset
    oob,              \* per thread: a store fell outside the caller's buffer
    calls             \* per thread: find_best_deadline calls returned

vars == <<global_512, global_512_fast, pc_init, inited, pc, cache, ng, final,
          fbd, best_deadline, best_offset, oob, calls>>

shared == <<global_512, global_512_fast, pc_init, inited>>
fbd_vars == <<fbd, best_deadline, best_offset, calls>>

\* ---------------------------------------------------------- initial state
ZeroTemplate == [k \in 0 .. (16 * VECTOR_SIZE - 1) |-> 0]

\* the arguments of the last mshabal_hash_fast call of a noncegen run:
\* message pointer (byte offset in the caller's buffer, U for NULL), the
\* termination template, the destination and the number of blocks
NoCall == [message |-> U, termination |-> "none", dst |-> U, num |-> 0]

NgIdle ==
    [numeric_id |-> 0, local_startnonce |-> 0, local_nonces |-> 0,
     seed |-> [w \in 0 .. 7 |-> 0], term |-> [w \in 0 .. 7 |-> 0],
     zero |-> [w \in 0 .. 7 |-> 0],
     t1 |-> ZeroTemplate, t2 |-> ZeroTemplate, t3 |-> ZeroTemplate,
     nonce |-> [b \in Lanes |-> 0],
     F |-> [j \in 0 .. 7 |-> [b \in Lanes |-> U]],
     n |-> 0, i |-> 0, cache |-> 0, local_512_fast |-> NoCtx,
     call |-> NoCall, nfinal |-> 0]

FinalNone ==
    [status |-> "none", size |-> 0, data |-> [b \in Lanes |-> U],
     nalloc |-> 0, nfree |-> 0, misuse |-> FALSE]

FbdIdle ==
    [scoop |-> 0, nonce_count |-> 0, gensig |-> [w \in 0 .. 7 |-> 0],
     term |-> [w \in 0 .. 7 |-> 0], x |-> NoCtx,
     gensig_simd |-> [k \in 0 .. (8 * VECTOR_SIZE - 1) |-> 0],
     term_simd |-> [k \in 0 .. (8 * VECTOR_SIZE - 1) |-> 0],
     mirrorscoop |-> 0, i |-> 0, lane |-> 0,
     d |-> [b \in Lanes |-> 0], entry_deadline |-> 0, entry_offset |-> 0]

Init ==
    /\ global_512 = ZeroCtx
    /\ global_512_fast = ZeroCtx
    /\ pc_init = "idle"
    /\ inited = FALSE
    /\ pc = [t \in Threads |-> "idle"]
    /\ cache = [t \in Threads |-> << >>]
    /\ ng = [t \in Threads |-> NgIdle]
    /\ final = [t \in Threads |-> FinalNone]
    /\ fbd = [t \in Threads |-> FbdIdle]
    /\ best_deadline = [t \in Threads |-> 0]
    /\ best_offset = [t \in Threads |-> 0]
    /\ oob = [t \in Threads |-> FALSE]
    /\ calls = [t \in Threads |-> 0]

\* ------------------------------------------------------------ init_shabal
\* no plotting or mining call is running (the caller's happens-before duty)
Quiescent == \A t \in Threads : pc[t] \in {"idle", "ng_ret", "fbd_ret"}

\* init_shabal is entered and mshabal_init fills the full context
InitFull ==
    /\ pc_init \in {"idle", "done"}
    /\ Quiescent
    /\ global_512' = mshabal_init(256)
    /\ pc_init' = "out_size"
    /\ UNCHANGED <<global_512_fast, inited>>

InitOutSize ==
    /\ pc_init = "out_size"
    /\ global_512_fast' = [global_512_fast EXCEPT !.out_size = global_512.out_size]
    /\ pc_init' = "state"
    /\ UNCHANGED <<global_512, inited>>

\* the copy loop with the count of the narrower vector (352 for 704)
InitCopyCount_Half == 22 * VECTOR_SIZE

\* number of state words the copy loop of init_shabal visits (704 = 44 * 16)
InitCopyCount == 44 * VECTOR_SIZE

InitState ==
    /\ pc_init = "state"
    /\ global_512_fast' =
         [global_512_fast EXCEPT !.state =
            [i \in 0 .. (STATE_WORDS - 1) |->
                IF i < InitCopyCount THEN global_512.state[i] ELSE @[i]]]
    /\ pc_init' = "Whigh"
    /\ UNCHANGED <<global_512, inited>>

InitW ==
    /\ pc_init = "Whigh"
    /\ global_512_fast' = [global_512_fast EXCEPT !.Whigh = global_512.Whigh,
                                                  !.Wlow = global_512.Wlow]
    /\ pc_init' = "done"
    /\ inited' = TRUE
    /\ UNCHANGED global_512

init_shabal ==
    /\ (InitFull \/ InitOutSize \/ InitState \/ InitW)
    /\ UNCHANGED <<pc, cache, ng, final, fbd, best_deadline, best_offset, oob, calls>>

\* --------------------------------------------------------------- noncegen
\* every lane seeded with the first nonce of the batch
LaneNonce_Lane0(local_startnonce, n, b) == local_startnonce + n + 0

\* nonce index lane b of the batch at loop offset n is seeded with
LaneNonce(local_startnonce, n, b) == local_startnonce + n + b

\* the templates after the preparation loop; the first 256 bits of t2 are
\* left for later
PrepareT1(seed, zero) ==
    [k \in 0 .. (16 * VECTOR_SIZE - 1) |->
        IF k < 8 * VECTOR_SIZE THEN seed[k \div VECTOR_SIZE]
        ELSE zero[(k - 8 * VECTOR_SIZE) \div VECTOR_SIZE]]

PrepareT2(seed) ==
    [k \in 0 .. (16 * VECTOR_SIZE - 1) |->
        IF k < 8 * VECTOR_SIZE THEN U
        ELSE seed[(k - 8 * VECTOR_SIZE) \div VECTOR_SIZE]]

PrepareT3(term, zero) ==
    [k \in 0 .. (16 * VECTOR_SIZE - 1) |->
        IF k < 8 * VECTOR_SIZE THEN term[k \div VECTOR_SIZE]
        ELSE zero[(k - 8 * VECTOR_SIZE) \div VECTOR_SIZE]]

\* store the nonce numbers in a template: rows 2 and 3 (plus off rows) get
\* the two 32-bit halves of each lane's byte-swapped nonce
PatchNonce(tpl, nonce, off) ==
    [k \in 0 .. (16 * VECTOR_SIZE - 1) |->
        LET j == k - off
            row == j \div VECTOR_SIZE
        IN  IF j >= 2 * VECTOR_SIZE /\ j < 4 * VECTOR_SIZE
            THEN U32At(nonce[j % VECTOR_SIZE], 4 * row - 8)
            ELSE tpl[k]]

\* memcpy(&t2, &cache[...], VECTOR_SIZE * HASH_SIZE)
StoreHashInT2(t2, vec) ==
    [k \in 0 .. (16 * VECTOR_SIZE - 1) |->
        IF k < 8 * VECTOR_SIZE THEN HashWord(vec[k % VECTOR_SIZE], k \div VECTOR_SIZE)
        ELSE t2[k]]

\* the XOR pass over the first hash of every scoop's worth of vectors only
XorCount_Half == 8 * HASH_CAP

\* number of vectors the XOR pass visits
XorCount == 8 * 2 * HASH_CAP

\* load final hash: F[j] is vector j of the scratch buffer
LoadFinal(fin) == [j \in 0 .. 7 |-> [b \in Lanes |-> HashWord(fin[b], j)]]

\* the XOR pass on the batch at byte offset ptr: vector j is word j % 8 of
\* hash slot j \div 8 and is XORed with F[j % 8]
XorPass(buf, ptr, F) ==
    [s \in DOMAIN buf |->
        LET rel == s - SlotOf(ptr)
        IN  IF rel < 0 \/ 8 * rel >= XorCount THEN buf[s]
            ELSE [b \in Lanes |->
                    Pack([k \in 0 .. 7 |->
                        IF 8 * rel + k < XorCount
                        THEN Xor(HashWord(buf[s][b], k), F[(8 * rel + k) % 8][b])
                        ELSE HashWord(buf[s][b], k)])]]

\* the cache pointer left where it was
NextCachePtr_Stay(ptr) == ptr

\* cache += VECTOR_SIZE * NONCE_SIZE
NextCachePtr(ptr) == ptr + VECTOR_SIZE * NONCE_SIZE

\* a hash stored over its first input
HashDst_Src(ptr, i) == ptr + i * VECTOR_SIZE

\* &cache[(i - HASH_SIZE) * VECTOR_SIZE]: where the hash computed from the
\* input at byte offset i (per lane) is stored
HashDst(ptr, i) == ptr + (i - HASH_SIZE) * VECTOR_SIZE

\* the caller's buffer for count nonces, nothing written yet
FreshBuffer(count) ==
    [s \in 0 .. ((count * NONCE_SIZE) \div (HASH_SIZE * VECTOR_SIZE) - 1) |->
        [b \in Lanes |-> U]]

\* a call of noncegen(cache, numeric_id, local_startnonce, local_nonces)
CallNoncegen(t, numeric_id, local_startnonce, local_nonces) ==
    /\ pc[t] = "idle"
    /\ pc_init = "done"
    /\ pc' = [pc EXCEPT ![t] = "ng_setup"]
    /\ cache' = [cache EXCEPT ![t] = FreshBuffer(local_nonces)]
    /\ ng' = [ng EXCEPT ![t] = [NgIdle EXCEPT !.numeric_id = numeric_id,
                                              !.local_startnonce = local_startnonce,
                                              !.local_nonces = local_nonces]]
    /\ final' = [final EXCEPT ![t] = FinalNone]
    /\ oob' = [oob EXCEPT ![t] = FALSE]
    /\ UNCHANGED <<shared, fbd_vars>>

\* write_seed, write_term, memset, malloc and the template preparation loop
NgSetup(t) ==
    /\ pc[t] = "ng_setup"
    /\ LET seed == write_seed(ng[t].numeric_id)
           term == write_term
           zero == [w \in 0 .. 7 |-> 0]
       IN  ng' = [ng EXCEPT ![t].seed = seed, ![t].term = term, ![t].zero = zero,
                            ![t].t1 = PrepareT1(seed, zero),
                            ![t].t2 = PrepareT2(seed),
                            ![t].t3 = PrepareT3(term, zero),
                            ![t].n = 0]
    /\ final' = [final EXCEPT ![t].status = "live",
                              ![t].size = VECTOR_SIZE * HASH_SIZE,
                              ![t].nalloc = @ + 1]
    /\ pc' = [pc EXCEPT ![t] = "ng_loop"]
    /\ UNCHANGED <<shared, cache, oob, fbd_vars>>

\* the head of the batch loop: another batch (nonce numbers generated,
\* byte-swapped and stored in t1 and t2) or the exit to free()
NgLoop(t) ==
    /\ pc[t] = "ng_loop"
    /\ IF ng[t].n < ng[t].local_nonces
       THEN LET nonce == [b \in Lanes |->
                            bswap_64(LaneNonce(ng[t].local_startnonce, ng[t].n, b))]
            IN  /\ ng' = [ng EXCEPT ![t].nonce = nonce, ![t].nfinal = 0,
                                    ![t].t1 = PatchNonce(@, nonce, 0),
                                    ![t].t2 = PatchNonce(@, nonce, 8 * VECTOR_SIZE)]
                /\ pc' = [pc EXCEPT ![t] = "ng_clone"]
       ELSE /\ pc' = [pc EXCEPT ![t] = "ng_free"]
            /\ UNCHANGED ng
    /\ UNCHANGED <<shared, cache, final, oob, fbd_vars>>

\* the copy with source and destination exchanged
CloneFast_Swapped(global, local) == <<local, local>>

\* memcpy(&local_512_fast, &global_512_fast, sizeof(global_512_fast)):
\* the pair <<global, local>> after the copy
CloneFast(global, local) == <<global, global>>

NgClone(t) ==
    /\ pc[t] = "ng_clone"
    /\ LET r == CloneFast(global_512_fast, ng[t].local_512_fast)
       IN  /\ global_512_fast' = r[1]
           /\ ng' = [ng EXCEPT ![t].local_512_fast = r[2]]
    /\ pc' = [pc EXCEPT ![t] = "ng_round1"]
    /\ UNCHANGED <<global_512, pc_init, inited, cache, final, oob, fbd_vars>>

\* the template a name stands for
TemplateOf(t, name) ==
    IF name = "t1" THEN ng[t].t1
    ELSE IF name = "t2" THEN ng[t].t2
    ELSE ng[t].t3

\* the early loop with the two templates exchanged
EarlyTemplate_Swapped(i) == IF i % 64 = 0 THEN "t2" ELSE "t1"

\* the template of an early step: seed + termination when the message can
\* be divided into 512-bit blocks, else 256 bit data + seed + termination
EarlyTemplate(i) == IF i % 64 = 0 THEN "t1" ELSE "t2"

\* the block count of an early step rounded up
EarlyBlocks_RoundUp(i) == (NONCE_SIZE + 63 - i) \div 64

\* block count of an early step
EarlyBlocks(i) == (NONCE_SIZE + 16 - i) \div 64

\* block count of a saturated step
SatBlocks == HASH_CAP \div 64

\* block count of the final hash
FinalBlocks == (NONCE_SIZE + 16) \div 64

\* a store of one hash slot at byte offset dst of thread t's buffer
StoreHash(t, dst, vec) ==
    /\ cache' = [cache EXCEPT ![t] = WriteSlot(@, SlotOf(dst), vec)]
    /\ oob' = [oob EXCEPT ![t] = @ \/ SlotOf(dst) \notin DOMAIN cache[t]]

\* round 1: the hash of the seed alone goes to the last hash slot
NgRound1(t) ==
    /\ pc[t] = "ng_round1"
    /\ StoreHash(t, ng[t].cache + VECTOR_SIZE * (NONCE_SIZE - HASH_SIZE),
                 mshabal_hash_fast(ng[t].local_512_fast, cache[t], 0, ng[t].t1,
                                   16 \div 64))
    /\ ng' = [ng EXCEPT ![t].call =
                 [message |-> U, termination |-> "t1",
                  dst |-> ng[t].cache + VECTOR_SIZE * (NONCE_SIZE - HASH_SIZE),
                  num |-> 16 \div 64]]
    /\ pc' = [pc EXCEPT ![t] = "ng_t2"]
    /\ UNCHANGED <<shared, final, fbd_vars>>

\* the first hash is stored into termination string 2
NgStoreT2(t) ==
    /\ pc[t] = "ng_t2"
    /\ ng' = [ng EXCEPT
                ![t].t2 = StoreHashInT2(@,
                    ReadSlot(cache[t],
                        SlotOf(ng[t].cache + VECTOR_SIZE * (NONCE_SIZE - HASH_SIZE)))),
                ![t].i = NONCE_SIZE - HASH_SIZE]
    /\ pc' = [pc EXCEPT ![t] = "ng_early"]
    /\ UNCHANGED <<shared, cache, final, oob, fbd_vars>>

\* round 2 - 128: one iteration, or the exit of the loop
NgEarly(t) ==
    /\ pc[t] = "ng_early"
    /\ LET i == ng[t].i
       IN  IF i > NONCE_SIZE - HASH_CAP
           THEN /\ StoreHash(t, HashDst(ng[t].cache, i),
                      mshabal_hash_fast(ng[t].local_512_fast, cache[t],
                          ng[t].cache + i * VECTOR_SIZE,
                          TemplateOf(t, EarlyTemplate(i)),
                          EarlyBlocks(i)))
                /\ ng' = [ng EXCEPT ![t].i = i - HASH_SIZE,
                             ![t].call =
                                [message |-> ng[t].cache + i * VECTOR_SIZE,
                                 termination |-> EarlyTemplate(i),
                                 dst |-> HashDst(ng[t].cache, i),
                                 num |-> EarlyBlocks(i)]]
                /\ pc' = pc
           ELSE /\ ng' = [ng EXCEPT ![t].i = NONCE_SIZE - HASH_CAP]
                /\ pc' = [pc EXCEPT ![t] = "ng_sat"]
                /\ UNCHANGED <<cache, oob>>
    /\ UNCHANGED <<shared, final, fbd_vars>>

\* round 128 - 8192: one iteration, or the exit of the loop
NgSat(t) ==
    /\ pc[t] = "ng_sat"
    /\ LET i == ng[t].i
       IN  IF i > 0
           THEN /\ StoreHash(t, HashDst(ng[t].cache, i),
                      mshabal_hash_fast(ng[t].local_512_fast, cache[t],
                          ng[t].cache + i * VECTOR_SIZE, ng[t].t3,
                          SatBlocks))
                /\ ng' = [ng EXCEPT ![t].i = i - HASH_SIZE,
                             ![t].call =
                                [message |-> ng[t].cache + i * VECTOR_SIZE,
                                 termination |-> "t3",
                                 dst |-> HashDst(ng[t].cache, i),
                                 num |-> SatBlocks]]
                /\ pc' = pc
           ELSE /\ pc' = [pc EXCEPT ![t] = "ng_final"]
                /\ UNCHANGED <<ng, cache, oob>>
    /\ UNCHANGED <<shared, final, fbd_vars>>

\* the final hash terminated like a saturated step
NgFinal_T3(t) ==
    /\ pc[t] = "ng_final"
    /\ final' = [final EXCEPT
                   ![t].data = mshabal_hash_fast(ng[t].local_512_fast, cache[t],
                                   ng[t].cache, ng[t].t3, FinalBlocks),
                   ![t].misuse = @ \/ final[t].status # "live"]
    /\ ng' = [ng EXCEPT ![t].nfinal = @ + 1,
                         ![t].call = [message |-> ng[t].cache, termination |-> "t3",
                                      dst |-> U, num |-> FinalBlocks]]
    /\ pc' = [pc EXCEPT ![t] = "ng_xor"]
    /\ UNCHANGED <<shared, cache, oob, fbd_vars>>

\* generate final hash into the scratch buffer
NgFinal(t) ==
    /\ pc[t] = "ng_final"
    /\ final' = [final EXCEPT
                   ![t].data = mshabal_hash_fast(ng[t].local_512_fast, cache[t],
                                   ng[t].cache, ng[t].t1, FinalBlocks),
                   ![t].misuse = @ \/ final[t].status # "live"]
    /\ ng' = [ng EXCEPT ![t].nfinal = @ + 1,
                         ![t].call = [message |-> ng[t].cache, termination |-> "t1",
                                      dst |-> U, num |-> FinalBlocks]]
    /\ pc' = [pc EXCEPT ![t] = "ng_xor"]
    /\ UNCHANGED <<shared, cache, oob, fbd_vars>>

\* XOR all hashes with the final hash, then advance cache and n
NgXor(t) ==
    /\ pc[t] = "ng_xor"
    /\ cache' = [cache EXCEPT ![t] = XorPass(@, ng[t].cache, LoadFinal(final[t].data))]
    /\ oob' = [oob EXCEPT ![t] =
                 @ \/ \E j \in {0, XorCount - 1} :
                        SlotOf(ng[t].cache) + (j \div 8) \notin DOMAIN cache[t]]
    /\ final' = [final EXCEPT ![t].misuse = @ \/ final[t].status # "live"]
    /\ ng' = [ng EXCEPT ![t].F = LoadFinal(final[t].data),
                         ![t].cache = NextCachePtr(@), ![t].n = @ + VECTOR_SIZE]
    /\ pc' = [pc EXCEPT ![t] = "ng_loop"]
    /\ UNCHANGED <<shared, fbd_vars>>

\* a return that frees only when a batch was generated
NgFree_SkipEmpty(t) ==
    /\ pc[t] = "ng_free"
    /\ final' = IF ng[t].n > 0
                THEN [final EXCEPT ![t].status = "freed", ![t].nfree = @ + 1]
                ELSE final
    /\ pc' = [pc EXCEPT ![t] = "ng_ret"]
    /\ UNCHANGED <<shared, ng, cache, oob, fbd_vars>>

\* free(final) and return
NgFree(t) ==
    /\ pc[t] = "ng_free"
    /\ final' = [final EXCEPT ![t].status = "freed", ![t].nfree = @ + 1]
    /\ pc' = [pc EXCEPT ![t] = "ng_ret"]
    /\ UNCHANGED <<shared, ng, cache, oob, fbd_vars>>

noncegen(t) ==
    \/ NgSetup(t) \/ NgLoop(t) \/ NgClone(t) \/ NgRound1(t) \/ NgStoreT2(t)
    \/ NgEarly(t) \/ NgSat(t) \/ NgFinal(t) \/ NgXor(t) \/ NgFree(t)

\* ----------------------------------------------------- find_best_deadline
\* SET_BEST_DEADLINE(d, o) of common.h (not in src/): the accumulator after
\* the candidate (d, o); a best deadline of 0 counts as unset
SET_BEST_DEADLINE(bd, bo, d, o) ==
    IF bd = 0 \/ d < bd THEN <<d, o>> ELSE <<bd, bo>>

\* every lane reporting the offset of the first lane
LaneOffset_Lane0(i, b) == i + 0

\* offset reported for lane b of the batch starting at nonce i
LaneOffset(i, b) == i + b

\* poc2: u1 first hash, u2 second hash = mirror hash (byte offsets in data)
U1(i, scoop) == i * NONCE_SIZE + scoop * SCOOP_SIZE * VECTOR_SIZE

\* u2 pointing at the first hash of the mirror scoop
U2_FirstHash(i, mirrorscoop) ==
    i * NONCE_SIZE + mirrorscoop * SCOOP_SIZE * VECTOR_SIZE

U2(i, mirrorscoop) ==
    i * NONCE_SIZE + mirrorscoop * SCOOP_SIZE * VECTOR_SIZE + HASH_SIZE * VECTOR_SIZE

\* the mirror taken from the number of scoops
MirrorScoop_OffByOne(scoop) == NUM_SCOOPS - scoop

\* mirrorscoop = 4095 - scoop
MirrorScoop(scoop) == (NUM_SCOOPS - 1) - scoop

\* a 32-byte block broadcast to all lanes
Broadcast(block) == [k \in 0 .. (8 * VECTOR_SIZE - 1) |-> block[k \div VECTOR_SIZE]]

\* a call of find_best_deadline on the nonces thread t generated; the
\* caller seeds *best_deadline or keeps what an earlier call left
CallFbd(t, scoop, nonce_count, gensig, seed0) ==
    /\ pc[t] \in {"ng_ret", "fbd_ret"}
    /\ calls[t] < MaxFbdCalls
    /\ nonce_count <= ng[t].local_nonces
    /\ best_deadline' = [best_deadline EXCEPT ![t] = IF seed0 THEN 0 ELSE @]
    /\ best_offset' = [best_offset EXCEPT ![t] = IF seed0 THEN 0 ELSE @]
    /\ fbd' = [fbd EXCEPT ![t] =
                 [FbdIdle EXCEPT !.scoop = scoop, !.nonce_count = nonce_count,
                                 !.gensig = gensig,
                                 !.entry_deadline = IF seed0 THEN 0 ELSE best_deadline[t],
                                 !.entry_offset = IF seed0 THEN 0 ELSE best_offset[t]]]
    /\ pc' = [pc EXCEPT ![t] = "fbd_setup"]
    /\ UNCHANGED <<shared, cache, ng, final, oob, calls>>

\* write_term, the local copy of the global fast context, the broadcast
\* inputs and the mirror scoop
FbdSetup(t) ==
    /\ pc[t] = "fbd_setup"
    /\ LET r == CloneFast(global_512_fast, fbd[t].x)
       IN  /\ global_512_fast' = r[1]
           /\ fbd' = [fbd EXCEPT ![t].term = write_term,
                                 ![t].x = r[2],
                                 ![t].gensig_simd = Broadcast(fbd[t].gensig),
                                 ![t].term_simd = Broadcast(write_term),
                                 ![t].mirrorscoop = MirrorScoop(fbd[t].scoop),
                                 ![t].i = 0]
    /\ pc' = [pc EXCEPT ![t] = "fbd_loop"]
    /\ UNCHANGED <<global_512, pc_init, inited, cache, ng, final, oob,
                   best_deadline, best_offset, calls>>

\* the head of the batch loop: the deadlines of another batch, or return
FbdLoop(t) ==
    /\ pc[t] = "fbd_loop"
    /\ IF fbd[t].i < fbd[t].nonce_count
       THEN /\ fbd' = [fbd EXCEPT
                         ![t].d = mshabal_deadline_fast(fbd[t].x, fbd[t].gensig_simd,
                                      cache[t], U1(fbd[t].i, fbd[t].scoop),
                                      U2(fbd[t].i, fbd[t].mirrorscoop),
                                      fbd[t].term_simd),
                         ![t].lane = 0]
            /\ pc' = [pc EXCEPT ![t] = "fbd_lane"]
            /\ calls' = calls
       ELSE /\ pc' = [pc EXCEPT ![t] = "fbd_ret"]
            /\ calls' = [calls EXCEPT ![t] = @ + 1]
            /\ fbd' = fbd
    /\ UNCHANGED <<shared, cache, ng, final, oob, best_deadline, best_offset>>

\* SET_BEST_DEADLINE for one lane; after the last lane, i += VECTOR_SIZE
FbdLane(t) ==
    /\ pc[t] = "fbd_lane"
    /\ LET b == fbd[t].lane
           r == SET_BEST_DEADLINE(best_deadline[t], best_offset[t],
                                  fbd[t].d[b], LaneOffset(fbd[t].i, b))
       IN  /\ best_deadline' = [best_deadline EXCEPT ![t] = r[1]]
           /\ best_offset' = [best_offset EXCEPT ![t] = r[2]]
           /\ IF b + 1 < VECTOR_SIZE
              THEN /\ fbd' = [fbd EXCEPT ![t].lane = b + 1]
                   /\ pc' = pc
              ELSE /\ fbd' = [fbd EXCEPT ![t].lane = b + 1,
                                         ![t].i = @ + VECTOR_SIZE]
                   /\ pc' = [pc EXCEPT ![t] = "fbd_loop"]
    /\ UNCHANGED <<shared, cache, ng, final, oob, calls>>

find_best_deadline(t) == FbdSetup(t) \/ FbdLoop(t) \/ FbdLane(t)

\* --------------------------------------------------------- specifications
\* one caller thread, every input
Caller(t) ==
    \/ \E id \in NumericIds, start \in StartNonces, count \in NonceCounts :
          CallNoncegen(t, id, start, count)
    \/ noncegen(t)
    \/ \E scoop \in Scoops, gensig \in Gensigs, seed0 \in BOOLEAN :
          CallFbd(t, scoop, ng[t].local_nonces, gensig, seed0)
    \/ find_best_deadline(t)

Next == init_shabal \/ Caller(1)

Spec == Init /\ [][Next]_vars

\* two runs of noncegen for one numeric id, one after the other, each on
\* its own buffer
SecondRun ==
    /\ pc[1] = "ng_ret"
    /\ \/ \E start \in StartNonces, count \in NonceCounts :
              CallNoncegen(2, ng[1].numeric_id, start, count)
       \/ noncegen(2)

FirstRun ==
    \/ \E id \in NumericIds, start \in StartNonces, count \in NonceCounts :
          CallNoncegen(1, id, start, count)
    \/ noncegen(1)

NextPair == init_shabal \/ FirstRun \/ SecondRun

SpecPair == Init /\ [][NextPair]_vars

\* two worker threads running concurrently after init_shabal, each on its
\* own buffer and accumulator: thread t plots VECTOR_SIZE nonces from nonce
\* t - 1 on and then searches them
Worker(t) ==
    \/ CallNoncegen(t, 1, t - 1, VECTOR_SIZE)
    \/ noncegen(t)
    \/ \E gensig \in Gensigs : gensig[0] # 0 /\ CallFbd(t, 1, VECTOR_SIZE, gensig, TRUE)
    \/ find_best_deadline(t)

NextConc == init_shabal \/ \E t \in Threads : Worker(t)

SpecConc == Init /\ [][NextConc]_vars

\* nonce counts that need not be multiples of the vector size
TailCounts == 1 .. (MaxBatches * VECTOR_SIZE)

\* one caller that plots and searches any number of nonces; its buffer
\* holds exactly the nonces it asks for
TailCaller(t) ==
    \/ \E count \in TailCounts : CallNoncegen(t, 1, 0, count)
    \/ noncegen(t)
    \/ \E gensig \in Gensigs : CallFbd(t, 1, ng[t].local_nonces, gensig, TRUE)
    \/ find_best_deadline(t)

NextTail == init_shabal \/ TailCaller(1)

SpecTail == Init /\ [][NextTail]_vars

\* ------------------------------------------------ find_best_deadline: claims
\* thread t is inside a find_best_deadline call whose inputs are prepared
FbdRunning(t) == pc[t] \in {"fbd_loop", "fbd_lane", "fbd_ret"}

\* the deadline the call of thread t computes for nonce idx when the scoop is s
DeadlineFor(t, idx, s) ==
    LET i == idx - (idx % VECTOR_SIZE)
    IN  mshabal_deadline_fast(fbd[t].x, fbd[t].gensig_simd, cache[t],
                              U1(i, s), U2(i, MirrorScoop(s)),
                              fbd[t].term_simd)[idx % VECTOR_SIZE]

\* deadline(idx) of the current call
DeadlineAt(t, idx) == DeadlineFor(t, idx, fbd[t].scoop)

Nonces(t) == 0 .. (fbd[t].nonce_count - 1)

IsMinDeadline(t, m) ==
    /\ \E idx \in Nonces(t) : DeadlineAt(t, idx) = m
    /\ \A idx \in Nonces(t) : m <= DeadlineAt(t, idx)

\* the call of thread t has returned; it was seeded with 0 and given a
\* positive multiple of the vector width
ReturnedSeeded(t) ==
    /\ pc[t] = "fbd_ret"
    /\ fbd[t].entry_deadline = 0
    /\ fbd[t].nonce_count > 0
    /\ fbd[t].nonce_count % VECTOR_SIZE = 0

\* C1: a call seeded with 0 over a positive multiple of B nonces, none of
\* whose deadlines is 0, returns the minimum deadline in *best_deadline and
\* in *best_offset an index in [0, nonce_count) whose deadline is that minimum.
C1_Reduction ==
    \A t \in Threads :
        (ReturnedSeeded(t) /\ \A idx \in Nonces(t) : DeadlineAt(t, idx) # 0)
        => /\ IsMinDeadline(t, best_deadline[t])
           /\ best_offset[t] \in Nonces(t)
           /\ DeadlineAt(t, best_offset[t]) = best_deadline[t]

\* a returned two-batch call without zero deadlines whose minimum lies in
\* the second batch, in a lane other than the first
C1_Witness ==
    /\ ReturnedSeeded(1)
    /\ fbd[1].nonce_count = 2 * VECTOR_SIZE
    /\ \A idx \in Nonces(1) : DeadlineAt(1, idx) # 0
    /\ best_offset[1] > VECTOR_SIZE
    /\ IsMinDeadline(1, best_deadline[1])

\* C2 (as claimed): when several nonces of a call seeded with 0 share the
\* minimum deadline, *best_offset is the smallest of their offsets.
C2_TieSmallestOffset ==
    \A t \in Threads :
        ReturnedSeeded(t) =>
            \A m \in 0 .. (WordMod * WordMod - 1) :
                (/\ IsMinDeadline(t, m)
                 /\ Cardinality({idx \in Nonces(t) : DeadlineAt(t, idx) = m}) > 1)
                => /\ best_offset[t] \in Nonces(t)
                   /\ DeadlineAt(t, best_offset[t]) = m
                   /\ \A idx \in Nonces(t) :
                        DeadlineAt(t, idx) = m => best_offset[t] <= idx

\* *best_deadline of thread t holds a genuine lane deadline of value 0: at
\* least one candidate of the running call was compared, and the recorded
\* offset is a nonce whose deadline is 0
HoldsGenuineZero(t) ==
    /\ pc[t] \in {"fbd_loop", "fbd_lane"}
    /\ fbd[t].i + fbd[t].lane > 0
    /\ best_deadline[t] = 0
    /\ best_offset[t] \in Nonces(t)
    /\ DeadlineAt(t, best_offset[t]) = 0

\* C3 (as claimed): once *best_deadline holds a genuine zero deadline, no
\* later candidate replaces it with a larger deadline.
C3_ZeroNeverReplaced ==
    [][\A t \in Threads : HoldsGenuineZero(t) => best_deadline'[t] = 0]_vars

\* C4 (as claimed): for a fixed nonce and gensig the deadline computed for
\* scoop s equals the deadline computed for its mirror scoop.
C4_MirrorEquivalence ==
    \A t \in Threads :
        FbdRunning(t) =>
            \A idx \in Nonces(t) :
                DeadlineFor(t, idx, fbd[t].scoop)
                    = DeadlineFor(t, idx, MirrorScoop(fbd[t].scoop))

\* index, within its nonce, of the hash that starts at byte offset p of data
HashIndexOf(p, i) == (p - i * NONCE_SIZE) \div (HASH_SIZE * VECTOR_SIZE)

\* C4 (amended): for scoop s the engine feeds Shabal the first hash of
\* scoop s (hash 2s) and the second hash of the mirror scoop (hash
\* 2(NUM_SCOOPS-1-s)+1); for the mirror scoop it feeds the first hash of the
\* mirror scoop and the second hash of scoop s.  The two pairs are disjoint:
\* together they are the four hashes of the two scoops.
C4_MirrorPairs ==
    \A t \in Threads :
        (FbdRunning(t) /\ fbd[t].i < fbd[t].nonce_count) =>
            LET s == fbd[t].scoop
                m == (NUM_SCOOPS - 1) - s
                i == fbd[t].i
                own == <<HashIndexOf(U1(i, s), i),
                         HashIndexOf(U2(i, fbd[t].mirrorscoop), i)>>
                mir == <<HashIndexOf(U1(i, fbd[t].mirrorscoop), i),
                         HashIndexOf(U2(i, MirrorScoop(fbd[t].mirrorscoop)), i)>>
            IN  /\ own = <<2 * s, 2 * m + 1>>
                /\ mir = <<2 * m, 2 * s + 1>>
                /\ {own[1], own[2]} \cap {mir[1], mir[2]} = {}
                /\ U1(i, s) % (HASH_SIZE * VECTOR_SIZE) = 0
                /\ U2(i, fbd[t].mirrorscoop) % (HASH_SIZE * VECTOR_SIZE) = 0

\* a call in its second batch, on a scoop other than 0 and the last
C4_Witness ==
    /\ pc[1] = "fbd_lane"
    /\ fbd[1].i = VECTOR_SIZE
    /\ fbd[1].scoop = 1
    /\ \E idx \in Nonces(1) :
          DeadlineFor(1, idx, 1) # DeadlineFor(1, idx, MirrorScoop(1))

\* ---------------------------------------------------------- noncegen: claims
HashesPerNonce == NONCE_SIZE \div HASH_SIZE
CapHashes == HASH_CAP \div HASH_SIZE

\* thread t has completed a batch whose final hash is still in F: the batch
\* occupies the slab that ends where the cache pointer now stands
BatchDone(t) == pc[t] = "ng_loop" /\ ng[t].n > 0

DoneBase(t) == SlotOf(ng[t].cache) - HashesPerNonce

\* hash slot s of lane b as it was before the XOR pass
PreXor(t, s, b) ==
    Pack([k \in 0 .. 7 |-> Xor(HashWord(cache[t][s][b], k), ng[t].F[k][b])])

\* the seed of one nonce: numeric id and nonce index big-endian, 0x80, zeros
SeedOf(numeric_id, nonce) ==
    [w \in 0 .. 7 |->
        IF w < 2 THEN U32At(bswap_64(numeric_id), 4 * w)
        ELSE IF w < 4 THEN U32At(bswap_64(nonce), 4 * (w - 2))
        ELSE IF w = 4 THEN 128
        ELSE 0]

\* the message whose hash is chain hash h of a nonce, by the plotting
\* definition, when chain hash g is found at slot base + Pos(g): in the
\* last CapHashes hashes all hashes above h followed by the seed, below
\* them the CapHashes hashes above h followed by the terminator; zeros fill
\* the last 64-byte block
ChainMessage(t, base, h, b, seed, Pos(_)) ==
    LET cnt == IF h >= HashesPerNonce - CapHashes
               THEN HashesPerNonce - 1 - h ELSE CapHashes
        len == 8 * cnt + (IF cnt % 2 = 0 THEN 16 ELSE 8)
    IN  [k \in 1 .. len |->
            IF k <= 8 * cnt
            THEN HashWord(PreXor(t, base + Pos(h + 1 + ((k - 1) \div 8)), b),
                          (k - 1) % 8)
            ELSE IF k > 8 * cnt + 8 THEN 0
            ELSE IF h >= HashesPerNonce - CapHashes THEN seed[k - 8 * cnt - 1]
            ELSE write_term[k - 8 * cnt - 1]]

ChainLen(h) ==
    LET cnt == IF h >= HashesPerNonce - CapHashes
               THEN HashesPerNonce - 1 - h ELSE CapHashes
    IN  8 * cnt + (IF cnt % 2 = 0 THEN 16 ELSE 8)

\* in the batch thread t completed, chain hash h of every lane is stored
\* (XORed with the final hash) at position Pos(h) of the nonce
StoredInOrder(t, Pos(_)) ==
    \A b \in Lanes : \A h \in 0 .. (HashesPerNonce - 1) :
        PreXor(t, DoneBase(t) + Pos(h), b) =
            Digest(Combine(Chain0(global_512_fast, b),
                TreeFold(ChainMessage(t, DoneBase(t), h, b,
                            SeedOf(ng[t].numeric_id,
                                   ng[t].local_startnonce + ng[t].n
                                       - VECTOR_SIZE + b),
                            Pos),
                         1, ChainLen(h))))

\* PoC2 order: the second hashes of mirror scoops are swapped
PoC2Pos(h) == IF h % 2 = 1 THEN 2 * (NUM_SCOOPS - 1 - (h \div 2)) + 1 ELSE h

\* chain order: nothing is swapped
ChainPos(h) == h

\* C5 (as claimed): the cache noncegen writes is in PoC2 order: the second
\* hash stored at scoop i is the chain hash that belongs to scoop
\* NUM_SCOOPS-1-i.
C5_PoC2Order == \A t \in Threads : BatchDone(t) => StoredInOrder(t, PoC2Pos)

\* C5 (amended): the cache noncegen writes is in chain order: for every
\* lane and every scoop i the two hashes stored at scoop i are the chain
\* hashes 2i and 2i+1 (XORed with the final hash); no second hashes are
\* swapped.
C5_ChainOrder == \A t \in Threads : BatchDone(t) => StoredInOrder(t, ChainPos)

\* the second batch of a run is complete
C5_Witness == pc[1] = "ng_loop" /\ ng[1].n = 2 * VECTOR_SIZE /\ ng[1].numeric_id = 1

\* thread t is inside the body of a noncegen batch
InBatch(t) ==
    pc[t] \in {"ng_clone", "ng_round1", "ng_t2", "ng_early", "ng_sat",
               "ng_final", "ng_xor"}

\* slot s lies in the slab of the batch that starts at nonce n
InSlab(s, n) ==
    /\ s >= (n \div VECTOR_SIZE) * HashesPerNonce
    /\ s < (n \div VECTOR_SIZE + 1) * HashesPerNonce

\* noncegen has returned to thread t and every slot of
\* cache[0 .. local_nonces * NONCE_SIZE) was written, none outside it
WroteExactly(t) ==
    (pc[t] = "ng_ret" /\ ng[t].local_nonces % VECTOR_SIZE = 0) =>
        /\ ~oob[t]
        /\ DOMAIN cache[t] = 0 .. ((ng[t].local_nonces \div VECTOR_SIZE)
                                        * HashesPerNonce - 1)
        /\ \A s \in DOMAIN cache[t] : \A b \in Lanes : cache[t][s][b] # U

\* a step of a batch changes only slots of the batch's own slab, and never
\* stores outside the buffer
BatchFrame(t) ==
    (InBatch(t) /\ ng[t].local_nonces % VECTOR_SIZE = 0) =>
        /\ ~oob'[t]
        /\ \A s \in DOMAIN cache[t] :
              cache'[t][s] # cache[t][s] => InSlab(s, ng[t].n)

\* C6: for local_nonces a multiple of B, noncegen writes every byte of
\* cache[0 .. local_nonces*NONCE_SIZE) and none outside; batch k writes only
\* inside its own slab; with local_nonces = 0 nothing is written.
C6_Frame ==
    [][\A t \in Threads : BatchFrame(t) /\ WroteExactly(t)']_vars

\* a two-batch run has returned with its buffer written
C6_Witness ==
    /\ pc[1] = "ng_ret"
    /\ ng[1].local_nonces = 2 * VECTOR_SIZE
    /\ \A s \in DOMAIN cache[1] : \A b \in Lanes : cache[1][s][b] # U
    /\ Cardinality(DOMAIN cache[1]) = 2 * HashesPerNonce

\* C9: init_shabal is idempotent: once it has returned, the fast context
\* holds the out_size, all 44*B state words and Whigh/Wlow of the freshly
\* initialised full context, and keeps them through every later call.
C9_InitIdempotent ==
    inited =>
        /\ global_512_fast.out_size = mshabal_init(256).out_size
        /\ \A i \in 0 .. (STATE_WORDS - 1) :
              global_512_fast.state[i] = mshabal_init(256).state[i]
        /\ global_512_fast.Whigh = mshabal_init(256).Whigh
        /\ global_512_fast.Wlow = mshabal_init(256).Wlow
        /\ DOMAIN global_512_fast.state = 0 .. (STATE_WORDS - 1)

\* a second call of init_shabal is about to copy the state words
C9_Witness == inited /\ pc_init = "state"

\* C10: every noncegen invocation, for any local_nonces including 0,
\* allocates exactly one scratch buffer of B*HASH_SIZE bytes, uses it only
\* while it is allocated, and releases it exactly once before returning.
C10_Scratch ==
    \A t \in Threads :
        /\ final[t].nalloc <= 1
        /\ final[t].nfree <= final[t].nalloc
        /\ ~final[t].misuse
        /\ pc[t] \in {"ng_loop", "ng_clone", "ng_round1", "ng_t2", "ng_early",
                      "ng_sat", "ng_final", "ng_xor", "ng_free"}
              => /\ final[t].status = "live"
                 /\ final[t].nalloc = 1
                 /\ final[t].nfree = 0
                 /\ final[t].size = VECTOR_SIZE * HASH_SIZE
        /\ pc[t] = "ng_ret"
              => /\ final[t].status = "freed"
                 /\ final[t].nalloc = 1
                 /\ final[t].nfree = 1

\* a run of no nonces has returned
C10_Witness == pc[1] = "ng_ret" /\ ng[1].local_nonces = 0 /\ final[1].nfree = 1

\* the nonce at output position p of thread t's buffer, de-interleaved
NonceAt(t, p) ==
    [h \in 0 .. (HashesPerNonce - 1) |->
        cache[t][(p \div VECTOR_SIZE) * HashesPerNonce + h][p % VECTOR_SIZE]]

Positions(t) == 0 .. (ng[t].local_nonces - 1)

\* the nonce words of lane b in the templates of thread t
SeededWith(t, b, nonce) ==
    /\ ng[t].t1[2 * VECTOR_SIZE + b] = U32At(bswap_64(nonce), 0)
    /\ ng[t].t1[3 * VECTOR_SIZE + b] = U32At(bswap_64(nonce), 4)
    /\ ng[t].t2[10 * VECTOR_SIZE + b] = U32At(bswap_64(nonce), 0)
    /\ ng[t].t2[11 * VECTOR_SIZE + b] = U32At(bswap_64(nonce), 4)

\* C7: lane b of the batch at loop offset n is seeded with nonce index
\* local_startnonce + n + b, and the nonce at an output position depends
\* only on the numeric id and that nonce index: two runs for one numeric id
\* hold equal bytes wherever their positions name the same nonce index,
\* whatever the lane, the batch and the start nonce.
C7_PositionIndependence ==
    /\ \A t \in Threads : InBatch(t) =>
          \A b \in Lanes :
              SeededWith(t, b, ng[t].local_startnonce + ng[t].n + b)
    /\ (/\ pc[1] = "ng_ret"
        /\ pc[2] = "ng_ret"
        /\ ng[1].numeric_id = ng[2].numeric_id)
       => \A p1 \in Positions(1), p2 \in Positions(2) :
             ng[1].local_startnonce + p1 = ng[2].local_startnonce + p2
                => NonceAt(1, p1) = NonceAt(2, p2)

\* two returned runs that hold one nonce index in different lanes of
\* different batches
C7_Witness ==
    /\ pc[1] = "ng_ret"
    /\ pc[2] = "ng_ret"
    /\ ng[1].local_startnonce # ng[2].local_startnonce
    /\ \E p1 \in Positions(1), p2 \in Positions(2) :
          /\ ng[1].local_startnonce + p1 = ng[2].local_startnonce + p2
          /\ p1 \div VECTOR_SIZE # p2 \div VECTOR_SIZE
          /\ p1 % VECTOR_SIZE # p2 % VECTOR_SIZE
          /\ NonceAt(1, p1) = NonceAt(2, p2)

\* thread t holds a clone of the fast context
HoldsClone(t) ==
    pc[t] \in {"ng_round1", "ng_t2", "ng_early", "ng_sat", "ng_final", "ng_xor"}

\* C8: after init_shabal has completed the fast context is never written
\* by noncegen or find_best_deadline: concurrent calls only copy it into
\* their local context, and under every interleaving they produce what they
\* produce alone - the nonce both threads plot is the same in both buffers
\* and gets the same deadline.
C8_ReadOnlyContext ==
    /\ (inited /\ pc_init = "done") =>
          /\ global_512_fast.out_size = 256
          /\ global_512_fast.state = mshabal_init(256).state
          /\ global_512_fast.Whigh = mshabal_init(256).Whigh
          /\ global_512_fast.Wlow = mshabal_init(256).Wlow
    /\ \A t \in Threads :
          /\ HoldsClone(t) => ng[t].local_512_fast = global_512_fast
          /\ FbdRunning(t) => fbd[t].x = global_512_fast
    /\ (pc[1] \in {"ng_ret", "fbd_setup", "fbd_loop", "fbd_lane", "fbd_ret"}
        /\ pc[2] \in {"ng_ret", "fbd_setup", "fbd_loop", "fbd_lane", "fbd_ret"})
       => \A p1 \in Positions(1), p2 \in Positions(2) :
             ng[1].local_startnonce + p1 = ng[2].local_startnonce + p2
                => NonceAt(1, p1) = NonceAt(2, p2)
    /\ (pc[1] = "fbd_ret" /\ pc[2] = "fbd_ret" /\ fbd[1].gensig = fbd[2].gensig)
       => \A p1 \in Positions(1), p2 \in Positions(2) :
             ng[1].local_startnonce + p1 = ng[2].local_startnonce + p2
                => fbd[1].d[p1] = fbd[2].d[p2]

\* both threads are in the middle of their chains at once, then done
C8_Witness ==
    /\ pc[1] = "fbd_ret"
    /\ pc[2] = "fbd_ret"
    /\ fbd[1].gensig = fbd[2].gensig
    /\ fbd[1].d[1] = fbd[2].d[0]

\* ------------------------------------------------- the hash chain: claims
\* first hash slot of the slab of the batch thread t is generating
SlabBase(t) == SlotOf(ng[t].cache)

\* hash h of the current slab of thread t has been written in every lane
Written(t, h) ==
    /\ SlabBase(t) + h \in DOMAIN cache[t]
    /\ \A b \in Lanes : cache[t][SlabBase(t) + h][b] # U

\* hash h of the current slab of thread t is untouched in every lane
Untouched(t, h) ==
    /\ SlabBase(t) + h \in DOMAIN cache[t]
    /\ \A b \in Lanes : cache[t][SlabBase(t) + h][b] = U

\* the hash slots a mshabal_hash_fast call reads: num blocks of two hashes
\* from the message pointer on
CallReads(c) ==
    IF c.message = U THEN {}
    ELSE SlotOf(c.message) .. (SlotOf(c.message) + 2 * c.num - 1)

\* thread t takes a step of the chain: a hash is stored in the buffer
ChainStep(t) ==
    /\ pc[t] \in {"ng_round1", "ng_early", "ng_sat"}
    /\ ng'[t].call # ng[t].call \/ cache'[t] # cache[t]

\* the step of thread t stores hash d of the slab: the hashes above d were
\* written before and are left alone, d and the hashes below it were
\* untouched, and the call read only hashes above d of this slab
WritesNextBelow(t, d) ==
    /\ d \in 0 .. (HashesPerNonce - 1)
    /\ \A h \in 0 .. (HashesPerNonce - 1) :
          /\ h > d => Written(t, h)
          /\ h <= d => Untouched(t, h)
    /\ \A s \in DOMAIN cache[t] :
          IF s = SlabBase(t) + d
          THEN \A b \in Lanes : cache'[t][s][b] # U
          ELSE cache'[t][s] = cache[t][s]
    /\ CallReads(ng'[t].call) \subseteq
          (SlabBase(t) + d + 1) .. (SlabBase(t) + HashesPerNonce - 1)
    /\ ~oob'[t]

\* C11: within each batch the hash slots are written in strictly descending
\* order from the last hash to hash 0, each exactly once before the XOR
\* pass, and every Shabal invocation reads only hashes of the current slab
\* that were written earlier in the same batch.
C11_DescendingChain ==
    [][\A t \in Threads :
          /\ ChainStep(t) =>
                /\ SlotOf(ng'[t].call.dst) - SlabBase(t) =
                      (IF pc[t] = "ng_round1" THEN HashesPerNonce - 1
                       ELSE (ng[t].i \div HASH_SIZE) - 1)
                /\ WritesNextBelow(t, SlotOf(ng'[t].call.dst) - SlabBase(t))
          /\ pc[t] = "ng_final" =>
                /\ \A h \in 0 .. (HashesPerNonce - 1) : Written(t, h)
                /\ CallReads(ng'[t].call) =
                      SlabBase(t) .. (SlabBase(t) + HashesPerNonce - 1)
                /\ cache'[t] = cache[t]]_vars

\* the second batch of a run is about to write hash 0, with the hashes of
\* the first batch below the slab
C11_Witness ==
    /\ pc[1] = "ng_sat"
    /\ ng[1].n = VECTOR_SIZE
    /\ ng[1].i = HASH_SIZE
    /\ ng[1].call.num = SatBlocks
    /\ Written(1, 1)
    /\ Untouched(1, 0)

\* number of 32-bit words of data a step absorbs when its first input hash
\* is hash f: min(NONCE_SIZE + 16 - i, HASH_CAP) bytes with i = f * HASH_SIZE
DataWords(f) ==
    LET bytes == NONCE_SIZE + 16 - f * HASH_SIZE
    IN  (IF bytes < HASH_CAP THEN bytes ELSE HASH_CAP) \div 4

\* word k (from 1) of the data lane b has to absorb when the first input
\* hash is hash f: the hashes f .. last of the slab, then the 16-byte seed
ChainData(t, f, b, k) ==
    IF k <= WORDS_PER_HASH * (HashesPerNonce - f)
    THEN HashWord(cache[t][SlabBase(t) + f + ((k - 1) \div WORDS_PER_HASH)][b],
                  (k - 1) % WORDS_PER_HASH)
    ELSE SeedOf(ng[t].numeric_id, ng[t].local_startnonce + ng[t].n + b)
            [k - WORDS_PER_HASH * (HashesPerNonce - f) - 1]

\* the template the step with first input hash f has to use
TemplateFor(f) ==
    IF f = HashesPerNonce THEN "t1"
    ELSE IF f > HashesPerNonce - CapHashes
         THEN (IF f % 2 = 0 THEN "t1" ELSE "t2")
         ELSE "t3"

\* the call c of thread t, made in the current state, absorbs in every lane
\* the data of the step with first input hash f, the 0x80 marker and zeros
\* up to the end of the last block
AbsorbsChainData(t, c, f) ==
    /\ c.termination = TemplateFor(f)
    /\ 16 * c.num + 16 = 16 * ((DataWords(f) \div 16) + 1)
    /\ \A b \in Lanes :
          LET m == Message(cache[t], IF c.message = U THEN 0 ELSE SlotOf(c.message),
                           b, TemplateOf(t, c.termination), c.num)
          IN  \A k \in 1 .. (16 * c.num + 16) :
                 m[k] = (IF k <= DataWords(f) THEN ChainData(t, f, b, k)
                         ELSE IF k = DataWords(f) + 1 THEN 128
                         ELSE 0)

\* C12: for every chain step the message absorbed per lane (the blocks read
\* from the cache, then the data carried in the chosen template) is the first
\* min(NONCE_SIZE + 16 - i, HASH_CAP) bytes of the hashes i/32 .. last
\* followed by the 16-byte seed: the last hash is the hash of the seed
\* alone, the hashes of the early phase use T2 when i % 64 # 0 and T1
\* otherwise, and the later hashes absorb the HASH_CAP bytes above them with
\* T3 and no seed.
C12_AbsorbedMessage ==
    [][\A t \in Threads :
          ChainStep(t) =>
              AbsorbsChainData(t, ng'[t].call,
                  IF pc[t] = "ng_round1" THEN HashesPerNonce
                  ELSE SlotOf(ng'[t].call.dst) - SlabBase(t) + 1)]_vars

\* in the second batch of a run for numeric id 1 a step of the early phase
\* has just used T2
C12_Witness ==
    /\ pc[1] = "ng_early"
    /\ ng[1].n = VECTOR_SIZE
    /\ ng[1].numeric_id = 1
    /\ ng[1].call.termination = "t2"
    /\ ng[1].call.num > 0

\* the slab of the current batch of thread t is as the chain computed it:
\* every hash below the last is the digest of the data above it, the last
\* hash is the digest of the seed alone
RawChain(t) ==
    \A h \in 0 .. (HashesPerNonce - 1) :
        cache[t][SlabBase(t) + h] =
            mshabal_hash_fast(ng[t].local_512_fast, cache[t],
                (SlabBase(t) + h + 1) * HASH_SIZE * VECTOR_SIZE,
                TemplateOf(t, TemplateFor(h + 1)),
                DataWords(h + 1) \div 16)

\* word k (from 1) of the message of the final hash of lane b: the whole
\* nonce, the 16-byte seed, the 0x80 marker, zeros
FinalMessage(t, b) ==
    [k \in 1 .. (WORDS_PER_HASH * HashesPerNonce + 16) |->
        IF k <= WORDS_PER_HASH * HashesPerNonce + 4 THEN ChainData(t, 0, b, k)
        ELSE IF k = WORDS_PER_HASH * HashesPerNonce + 5 THEN 128
        ELSE 0]

\* C13: in every batch the final digest is computed exactly once, after
\* hash 0 has been written and before anything of the slab is XORed, over
\* the entire nonce of each lane followed by the seed that carries the
\* nonce index of the lane in the current batch.
C13_FinalDigest ==
    [][\A t \in Threads :
          /\ pc[t] \in {"ng_clone", "ng_round1", "ng_t2", "ng_early", "ng_sat",
                        "ng_final"} => ng[t].nfinal = 0
          /\ pc[t] = "ng_xor" => ng[t].nfinal = 1
          /\ final'[t].data # final[t].data => pc[t] = "ng_final"
          /\ pc[t] = "ng_final" =>
                /\ Written(t, 0)
                /\ RawChain(t)
                /\ cache'[t] = cache[t]
                /\ pc'[t] = "ng_xor"
                /\ ng'[t].nfinal = 1
                /\ \A b \in Lanes :
                      final'[t].data[b] =
                          Digest(Combine(Chain0(global_512_fast, b),
                              TreeFold(FinalMessage(t, b), 1,
                                       WORDS_PER_HASH * HashesPerNonce + 16)))]_vars

\* the final digest of the second batch of a run has been computed and the
\* XOR pass has not begun
C13_Witness ==
    /\ pc[1] = "ng_xor"
    /\ ng[1].n = VECTOR_SIZE
    /\ ng[1].nfinal = 1
    /\ ng[1].call.num = FinalBlocks
    /\ \A b \in Lanes : final[1].data[b] # U
    /\ RawChain(1)

\* slot s belongs to the slab of the batch thread t is generating
InCurrentSlab(t, s) ==
    s >= SlabBase(t) /\ s < SlabBase(t) + HashesPerNonce

\* C14: the XOR pass XORs word w of lane b's final digest into word w of
\* every hash of lane b of the batch, each word exactly once; a second pass
\* with the same digest restores the slab; nothing outside the slab of the
\* batch is touched.
C14_XorPass ==
    [][\A t \in Threads :
          pc[t] = "ng_xor" =>
              /\ \A s \in DOMAIN cache[t] :
                    IF InCurrentSlab(t, s)
                    THEN \A b \in Lanes : \A w \in 0 .. (WORDS_PER_HASH - 1) :
                            HashWord(cache'[t][s][b], w) =
                                Xor(HashWord(cache[t][s][b], w),
                                    HashWord(final[t].data[b], w))
                    ELSE cache'[t][s] = cache[t][s]
              /\ \A h \in 0 .. (HashesPerNonce - 1) :
                    SlabBase(t) + h \in DOMAIN cache[t]
              /\ XorPass(cache'[t], ng[t].cache, LoadFinal(final[t].data)) = cache[t]
              /\ ~oob'[t]]_vars

\* the XOR pass of the second batch has run with a digest that is not zero
\* and has changed the slab
C14_Witness ==
    /\ pc[1] = "ng_loop"
    /\ ng[1].n = 2 * VECTOR_SIZE
    /\ \A b \in Lanes : \E j \in 0 .. 7 : ng[1].F[j][b] > 0
    /\ XorPass(cache[1], ng[1].cache - VECTOR_SIZE * NONCE_SIZE, ng[1].F) # cache[1]

\* ---------------------------------------------- deadline addressing: claims
\* the B*HASH_SIZE bytes at byte offset p lie inside the slab of the batch
\* that starts at nonce i, on a hash boundary
InBatchSlab(p, i) ==
    /\ p >= i * NONCE_SIZE
    /\ p + VECTOR_SIZE * HASH_SIZE <= (i + VECTOR_SIZE) * NONCE_SIZE
    /\ (p - i * NONCE_SIZE) % (VECTOR_SIZE * HASH_SIZE) = 0

\* u1 and u2 of the batch at nonce i for scoop s with mirror scoop m are
\* the first hash of scoop s and the second hash of scoop NUM_SCOOPS-1-s
ReadsMirrorPair(i, s, m) ==
    /\ HashIndexOf(U1(i, s), i) = 2 * s
    /\ HashIndexOf(U2(i, m), i) = 2 * ((NUM_SCOOPS - 1) - s) + 1
    /\ InBatchSlab(U1(i, s), i)
    /\ InBatchSlab(U2(i, m), i)

\* C15: for every scoop s and every batch start i below nonce_count,
\* find_best_deadline reads as u1 the first hash of scoop s and as u2 the
\* second hash of scoop NUM_SCOOPS-1-s of the same batch, both inside that
\* batch's slab, and the batch base i*NONCE_SIZE is where noncegen wrote the
\* slab of nonces i .. i+B-1.
C15_Addressing ==
    \A t \in Threads :
        /\ pc[t] = "fbd_lane" =>
              /\ fbd[t].i % VECTOR_SIZE = 0
              /\ fbd[t].i < fbd[t].nonce_count
              /\ ReadsMirrorPair(fbd[t].i, fbd[t].scoop, fbd[t].mirrorscoop)
              /\ \A p \in {U1(fbd[t].i, fbd[t].scoop),
                           U2(fbd[t].i, fbd[t].mirrorscoop)} :
                    /\ SlotOf(p) \in DOMAIN cache[t]
                    /\ \A b \in Lanes : cache[t][SlotOf(p)][b] # U
        /\ pc[t] = "fbd_loop" =>
              \A s \in 0 .. (NUM_SCOOPS - 1) :
                  ReadsMirrorPair(fbd[t].i, s, MirrorScoop(s))
        /\ InBatch(t) => ng[t].cache = U1(ng[t].n, 0)

\* the deadlines of the second batch are computed for the scoop before the
\* last
C15_Witness ==
    /\ pc[1] = "fbd_lane"
    /\ fbd[1].i = VECTOR_SIZE
    /\ fbd[1].scoop = NUM_SCOOPS - 2
    /\ fbd[1].mirrorscoop = 1
    /\ SlotOf(U2(fbd[1].i, fbd[1].mirrorscoop)) = HashesPerNonce + 3

\* ---------------------------------------------------- whole batches: claims
\* C16 (as claimed): a batch is started only while at least B nonces
\* remain, nothing at or beyond local_nonces*NONCE_SIZE is written, and no
\* offset at or beyond nonce_count is reported.
C16_WholeBatches ==
    \A t \in Threads :
        /\ InBatch(t) => ng[t].n + VECTOR_SIZE <= ng[t].local_nonces
        /\ ~oob[t]
        /\ pc[t] = "fbd_lane" => fbd[t].i + VECTOR_SIZE <= fbd[t].nonce_count
        /\ (FbdRunning(t) /\ fbd[t].nonce_count > 0) =>
              best_offset[t] < fbd[t].nonce_count

====
